---- MODULE Spec2Model ----
(***************************************************************************)
(* Model of @here/materials/lib/MapMeshMaterials.ts: the distance fading   *)
(* feature of MapMeshBasicMaterial and MapMeshStandardMaterial.            *)
(*                                                                         *)
(* Numbers are the integers among the JavaScript numbers: the normalized   *)
(* distances 0 and 1 (the far plane), the sentinel -1, and their products  *)
(* with a camera's far plane.  An optional value (`x?: number`) is the     *)
(* empty sequence when it is undefined and <<v>> when it holds v.          *)
(***************************************************************************)
EXTENDS Integers, Sequences, FiniteSets, TLC

VARIABLES
    materials,     \* the material instances, by identity
    properties,    \* renderer.properties: the compiled shader of each material
    ShaderChunk,   \* THREE.ShaderChunk: the names of the global shader chunks
    patchCount,    \* observer: how often Object.assign wrote THREE.ShaderChunk
    object,        \* the THREE.Object3D the render helper is added to
    rendering,     \* the draw call in progress, <<>> between draw calls
    last           \* observer: the operation that ran last, with its inputs

vars == <<materials, properties, ShaderChunk, patchCount, object, rendering, last>>

----------------------------------------------------------------------------
(* Bounds and input sets *)

MaxMaterials == 2

MaterialIds == 1..MaxMaterials

Undefined == <<>>
Some(v) == <<v>>
IsDefined(x) == x # Undefined
ValueOf(x) == x[1]

\* values assigned to the fadeNear / fadeFar properties by callers
AssignedValues == {0, 1}

\* fadeNear / fadeFar of the constructor's and the render helper's parameters
OptionalDistances == {Undefined, Some(0), Some(1)}

\* camera.far of the cameras the scene is rendered with
CameraFars == {2, 3}

MaterialKinds == {"basic", "standard"}

----------------------------------------------------------------------------
(* FadingFeature namespace *)

DEFAULT_FADE_NEAR == -1

DEFAULT_FADE_FAR == -1

cameraToWorldDistance(distance, far) == distance * far

FADING_MATERIAL == "FADING_MATERIAL"

\* `fadeFar !== undefined && fadeFar > 0.0`
FadingEnabled(fadeFar) == IsDefined(fadeFar) /\ ValueOf(fadeFar) > 0

\* variant: the test for undefined is dropped, so only a number <= 0 disables
FadingDisabled_IgnoresUndefined(fadeFar) ==
    IsDefined(fadeFar) /\ ValueOf(fadeFar) <= 0

\* `fadeFar === undefined || fadeFar <= 0.0`
FadingDisabled(fadeFar) == ~IsDefined(fadeFar) \/ ValueOf(fadeFar) <= 0

\* the chunks of @here/materials/lib/ShaderChunks/FadingChunks
fadingShaderChunk ==
    {"fading_pars_vertex", "fading_vertex", "fading_pars_fragment", "fading_fragment"}

\* THREE.ShaderChunk before any patch: the chunks the fading patch is anchored to
BaseShaderChunk ==
    {"common", "fog_pars_vertex", "fog_vertex", "fog_pars_fragment", "fog_fragment"}

\* variant: the registry is written on every call
patchGlobalShaderChunks_Unguarded(chunk, count) ==
    [chunk |-> chunk \cup fadingShaderChunk, count |-> count + 1]

\* patchGlobalShaderChunks(): the registry and the number of writes after the call
patchGlobalShaderChunks(chunk, count) ==
    IF "fading_pars_vertex" \notin chunk
        THEN [chunk |-> chunk \cup fadingShaderChunk, count |-> count + 1]
        ELSE [chunk |-> chunk, count |-> count]

\* variant: the define is toggled instead of set
updateDistanceFadeFeature_Toggle(mat) ==
    LET defs == IF IsDefined(mat.defines) THEN ValueOf(mat.defines) ELSE {}
    IN  [mat EXCEPT
            !.needsUpdate = TRUE,
            !.defines = IF FadingEnabled(mat.m_fadeFar)
                            THEN IF FADING_MATERIAL \in defs
                                    THEN Some(defs \ {FADING_MATERIAL})
                                    ELSE Some(defs \cup {FADING_MATERIAL})
                            ELSE Some(defs)]

\* updateDistanceFadeFeature(fadingMaterial): the material after the call
updateDistanceFadeFeature(mat) ==
    LET defs == IF IsDefined(mat.defines) THEN ValueOf(mat.defines) ELSE {}
    IN  [mat EXCEPT
            !.needsUpdate = TRUE,
            !.defines = IF FadingEnabled(mat.m_fadeFar)
                            THEN Some(defs \cup {FADING_MATERIAL})
                            ELSE Some(defs)]

----------------------------------------------------------------------------
(* Shader sources: sequences of tokens (directives, line breaks, tabs, code) *)

NL == "\n"

TAB == "\t"

Include(name) == "#include <" \o name \o ">"

PatchStart == "// << Patched fading shader START >>"

PatchEnd == "// << Patched fading shader END >>"

RECURSIVE IndexOf(_, _, _)
\* position of the first occurrence of token t in s at or after i, 0 if none
IndexOf(s, t, i) ==
    IF i > Len(s) THEN 0
    ELSE IF s[i] = t THEN i
    ELSE IndexOf(s, t, i + 1)

\* variant: the tab is inserted whatever addTab
insertShaderInclude_AlwaysTab(shaderContent, shaderName, insertedShaderName, addTab) ==
    LET i == IndexOf(shaderContent, Include(shaderName), 1)
    IN  IF i = 0 THEN shaderContent
        ELSE SubSeq(shaderContent, 1, i - 1)
             \o <<NL, Include(shaderName), NL, PatchStart, NL, TAB>>
             \o <<Include(insertedShaderName), NL, PatchEnd, NL>>
             \o SubSeq(shaderContent, i + 1, Len(shaderContent))

\* insertShaderInclude(shaderContent, shaderName, insertedShaderName, addTab):
\* String.replace with a string pattern replaces the first occurrence only
insertShaderInclude(shaderContent, shaderName, insertedShaderName, addTab) ==
    LET tabChar == IF addTab THEN <<TAB>> ELSE <<>>
        i == IndexOf(shaderContent, Include(shaderName), 1)
    IN  IF i = 0 THEN shaderContent
        ELSE SubSeq(shaderContent, 1, i - 1)
             \o <<NL, Include(shaderName), NL, PatchStart, NL>>
             \o tabChar
             \o <<Include(insertedShaderName), NL, PatchEnd, NL>>
             \o SubSeq(shaderContent, i + 1, Len(shaderContent))

\* uniforms.<name> = { value }: an object's key set to a value
SetUniform(uniforms, name, value) ==
    [n \in DOMAIN uniforms \cup {name} |-> IF n = name THEN value ELSE uniforms[n]]

\* FadingFeature.onBeforeCompile(fadingMaterial, shader): the shader after the call
onBeforeCompile(mat, shader) ==
    IF FadingDisabled(mat.m_fadeFar) THEN shader
    ELSE
        LET u1 == SetUniform(shader.uniforms, "fadeNear", mat.m_fadeNear)
            u2 == SetUniform(u1, "fadeFar", mat.m_fadeFar)
            v1 == insertShaderInclude(shader.vertexShader,
                                      "fog_pars_vertex", "fading_pars_vertex", FALSE)
            v2 == insertShaderInclude(v1, "fog_vertex", "fading_vertex", TRUE)
            f1 == insertShaderInclude(shader.fragmentShader,
                                      "fog_pars_fragment", "fading_pars_fragment", FALSE)
            f2 == insertShaderInclude(f1, "fog_fragment", "fading_fragment", TRUE)
        IN  [uniforms |-> u2, vertexShader |-> v2, fragmentShader |-> f2]

\* the uniforms of a shader of THREE.ShaderLib
LibUniforms == [n \in {"diffuse"} |-> Some(1)]

\* a shader of THREE.ShaderLib, with the four fog includes
FogShader ==
    [uniforms |-> LibUniforms,
     vertexShader |-> <<Include("common"), NL, Include("fog_pars_vertex"), NL,
                        "void main() {", NL, TAB, Include("fog_vertex"), NL, "}">>,
     fragmentShader |-> <<Include("common"), NL, Include("fog_pars_fragment"), NL,
                          "void main() {", NL, TAB, Include("fog_fragment"), NL, "}">>]

\* a shader with no fog include in the vertex source and no fog_pars_fragment,
\* and with fog_fragment twice in the fragment source
OtherShader ==
    [uniforms |-> LibUniforms,
     vertexShader |-> <<Include("common"), NL, "void main() {", NL, "}">>,
     fragmentShader |-> <<Include("common"), NL, "void main() {", NL, TAB,
                          Include("fog_fragment"), NL, TAB, Include("fog_fragment"),
                          NL, "}">>]

\* the shaders the renderer hands to onBeforeCompile
ShaderLib == {FogShader, OtherShader}

----------------------------------------------------------------------------
(* FadingFeatureMixin *)

\* a slot no constructor has run for
NoMaterial ==
    [constructed |-> FALSE, kind |-> "basic", m_fadeNear |-> Undefined,
     m_fadeFar |-> Undefined, needsUpdate |-> FALSE, defines |-> Undefined,
     transparent |-> FALSE, uniformsNeedUpdate |-> FALSE]

getFadeNear(mat) == mat.m_fadeNear

getFadeFar(mat) == mat.m_fadeFar

\* variant: a pending needsUpdate is overwritten by the comparison
setFadeNear_IgnoresPending(mat, value) ==
    LET needsUpdate == value # mat.m_fadeNear
        stored == [mat EXCEPT !.needsUpdate = needsUpdate, !.m_fadeNear = value]
    IN  IF needsUpdate THEN updateDistanceFadeFeature(stored) ELSE stored

\* setFadeNear(value): value is an optional number
setFadeNear(mat, value) ==
    LET needsUpdate == mat.needsUpdate \/ value # mat.m_fadeNear
        stored == [mat EXCEPT !.needsUpdate = needsUpdate, !.m_fadeNear = value]
    IN  IF needsUpdate THEN updateDistanceFadeFeature(stored) ELSE stored

\* variant: a new value is stored without marking the material for an update
setFadeFar_NoMark(mat, value) ==
    LET stored == [mat EXCEPT !.m_fadeFar = value]
    IN  IF mat.needsUpdate THEN updateDistanceFadeFeature(stored) ELSE stored

\* setFadeFar(value)
setFadeFar(mat, value) ==
    LET needsUpdate == mat.needsUpdate \/ value # mat.m_fadeFar
        stored == [mat EXCEPT !.needsUpdate = needsUpdate, !.m_fadeFar = value]
    IN  IF needsUpdate THEN updateDistanceFadeFeature(stored) ELSE stored

\* applyFadingParameters(params): the installed onBeforeCompile callback is the
\* operator onBeforeCompile applied to this material
applyFadingParameters(mat, fadeNear, fadeFar) ==
    LET m1 == IF IsDefined(fadeNear) THEN setFadeNear(mat, fadeNear) ELSE mat
    IN  IF IsDefined(fadeFar) THEN setFadeFar(m1, fadeFar) ELSE m1

\* variant: fadeFar is not copied
copyFadingParameters_NearOnly(mat, source) ==
    setFadeNear(mat, IF ~IsDefined(getFadeNear(source))
                        THEN Some(DEFAULT_FADE_NEAR)
                        ELSE getFadeNear(source))

\* copyFadingParameters(source)
copyFadingParameters(mat, source) ==
    LET m1 == setFadeNear(mat, IF ~IsDefined(getFadeNear(source))
                                    THEN Some(DEFAULT_FADE_NEAR)
                                    ELSE getFadeNear(source))
    IN  setFadeFar(m1, IF ~IsDefined(getFadeFar(source))
                            THEN Some(DEFAULT_FADE_FAR)
                            ELSE getFadeFar(source))

\* applyMixinsWithoutProperties(MapMesh*Material, [FadingFeatureMixin]): the
\* methods of the mixin are copied to the class, its property initializers
\* (m_fadeNear, m_fadeFar) are not, and the mixin's constructor never runs
MixinProperties == [m_fadeNear |-> Undefined, m_fadeFar |-> Undefined]

----------------------------------------------------------------------------
(* MapMeshBasicMaterial / MapMeshStandardMaterial *)

\* super(params): THREE.MeshBasicMaterial has no defines, THREE.MeshStandardMaterial
\* has { STANDARD: "" }; a new THREE.Material needs an update
BaseMaterial(kind, transparent) ==
    [constructed |-> TRUE, kind |-> kind,
     m_fadeNear |-> MixinProperties.m_fadeNear,
     m_fadeFar |-> MixinProperties.m_fadeFar,
     needsUpdate |-> TRUE,
     defines |-> IF kind = "standard" THEN Some({"STANDARD"}) ELSE Undefined,
     transparent |-> transparent, uniformsNeedUpdate |-> FALSE]

\* new MapMesh*Material(params): the material (the registry is patched by Construct)
NewMaterial(kind, fadeNear, fadeFar, transparent) ==
    applyFadingParameters(BaseMaterial(kind, transparent), fadeNear, fadeFar)

\* copy(source) on a new material: THREE.Material.copy takes over transparent
copy(mat, source) ==
    copyFadingParameters([mat EXCEPT !.transparent = source.transparent], source)

NoObject ==
    [helper |-> FALSE, fadeNear |-> Undefined, fadeFar |-> Undefined,
     forceMaterialToTransparent |-> FALSE, updateUniforms |-> FALSE,
     additionalCallback |-> FALSE, onAfterRender |-> FALSE]

\* the observer before any operation: op names the operation, m the material it
\* acted on, pre / preShader that material and its compiled shader before it (for
\* a clone: the source; for a compilation: the shader handed to the hook); the
\* other fields are the operation's inputs and what it did
NoOp ==
    [op |-> "none", m |-> 0, source |-> 0, pre |-> NoMaterial,
     preShader |-> Undefined, value |-> Undefined, fadeNear |-> Undefined,
     fadeFar |-> Undefined, far |-> 0, threw |-> FALSE, callbacks |-> 0,
     transparentBefore |-> FALSE, hadAfterRender |-> FALSE]

Init ==
    /\ materials = [m \in MaterialIds |-> NoMaterial]
    /\ properties = [m \in MaterialIds |-> Undefined]
    /\ ShaderChunk = BaseShaderChunk
    /\ patchCount = 0
    /\ object = NoObject
    /\ rendering = <<>>
    /\ last = NoOp

Idle == rendering = <<>>

\* new MapMeshBasicMaterial(params) / new MapMeshStandardMaterial(params)
Construct(m, kind, fadeNear, fadeFar, transparent) ==
    /\ Idle
    /\ ~materials[m].constructed
    /\ LET patched == patchGlobalShaderChunks(ShaderChunk, patchCount)
       IN  /\ ShaderChunk' = patched.chunk
           /\ patchCount' = patched.count
    /\ materials' = [materials EXCEPT
                        ![m] = NewMaterial(kind, fadeNear, fadeFar, transparent)]
    /\ last' = [NoOp EXCEPT !.op = "construct", !.m = m, !.pre = materials[m],
                            !.fadeNear = fadeNear, !.fadeFar = fadeFar]
    /\ UNCHANGED <<properties, object, rendering>>

\* material.fadeNear = value
SetFadeNear(m, value) ==
    /\ Idle
    /\ materials[m].constructed
    /\ materials' = [materials EXCEPT ![m] = setFadeNear(@, Some(value))]
    /\ last' = [NoOp EXCEPT !.op = "setFadeNear", !.m = m, !.pre = materials[m],
                            !.value = Some(value)]
    /\ UNCHANGED <<properties, ShaderChunk, patchCount, object, rendering>>

\* material.fadeFar = value
SetFadeFar(m, value) ==
    /\ Idle
    /\ materials[m].constructed
    /\ materials' = [materials EXCEPT ![m] = setFadeFar(@, Some(value))]
    /\ last' = [NoOp EXCEPT !.op = "setFadeFar", !.m = m, !.pre = materials[m],
                            !.value = Some(value)]
    /\ UNCHANGED <<properties, ShaderChunk, patchCount, object, rendering>>

\* FadingFeature.updateDistanceFadeFeature(material), called by a client
UpdateDistanceFadeFeature(m) ==
    /\ Idle
    /\ materials[m].constructed
    /\ materials' = [materials EXCEPT ![m] = updateDistanceFadeFeature(@)]
    /\ last' = [NoOp EXCEPT !.op = "update", !.m = m, !.pre = materials[m]]
    /\ UNCHANGED <<properties, ShaderChunk, patchCount, object, rendering>>

\* source.clone(): new MapMesh*Material().copy(source)
Clone(source, m) ==
    /\ Idle
    /\ materials[source].constructed
    /\ ~materials[m].constructed
    /\ LET patched == patchGlobalShaderChunks(ShaderChunk, patchCount)
       IN  /\ ShaderChunk' = patched.chunk
           /\ patchCount' = patched.count
    /\ materials' = [materials EXCEPT
                        ![m] = copy(NewMaterial(materials[source].kind, Undefined,
                                                Undefined, FALSE),
                                    materials[source])]
    /\ last' = [NoOp EXCEPT !.op = "clone", !.m = m, !.pre = materials[source],
                            !.source = source]
    /\ UNCHANGED <<properties, object, rendering>>

\* the renderer builds the program of a material that needs an update: it calls
\* material.onBeforeCompile(shader), keeps the shader and clears needsUpdate
Compile(m, shader) ==
    /\ materials[m].constructed
    /\ materials[m].needsUpdate
    /\ properties' = [properties EXCEPT
                         ![m] = Some(onBeforeCompile(materials[m], shader))]
    /\ materials' = [materials EXCEPT ![m].needsUpdate = FALSE]
    /\ last' = [NoOp EXCEPT !.op = "compile", !.m = m, !.pre = materials[m],
                            !.preShader = Some(shader)]
    /\ UNCHANGED <<ShaderChunk, patchCount, object, rendering>>

\* variant: the after-render hook is installed whatever forceMaterialToTransparent
AddRenderHelper_AlwaysAfterRender(fadeNear, fadeFar, forceMaterialToTransparent, updateUniforms, additionalCallback) ==
    /\ rendering = <<>>
    /\ object' = [helper |-> TRUE, fadeNear |-> fadeNear, fadeFar |-> fadeFar,
                  forceMaterialToTransparent |-> forceMaterialToTransparent,
                  updateUniforms |-> updateUniforms,
                  additionalCallback |-> additionalCallback,
                  onAfterRender |-> TRUE]
    /\ last' = [NoOp EXCEPT !.op = "addRenderHelper",
                            !.hadAfterRender = object.onAfterRender]
    /\ UNCHANGED <<materials, properties, ShaderChunk, patchCount, rendering>>

\* FadingFeature.addRenderHelper(object, fadeNear, fadeFar,
\*     forceMaterialToTransparent, updateUniforms, additionalCallback)
AddRenderHelper(fadeNear, fadeFar, forceMaterialToTransparent, updateUniforms, additionalCallback) ==
    /\ Idle
    /\ object' = [helper |-> TRUE, fadeNear |-> fadeNear, fadeFar |-> fadeFar,
                  forceMaterialToTransparent |-> forceMaterialToTransparent,
                  updateUniforms |-> updateUniforms,
                  additionalCallback |-> additionalCallback,
                  onAfterRender |-> IF forceMaterialToTransparent THEN TRUE
                                    ELSE object.onAfterRender]
    /\ last' = [NoOp EXCEPT !.op = "addRenderHelper",
                            !.hadAfterRender = object.onAfterRender]
    /\ UNCHANGED <<materials, properties, ShaderChunk, patchCount, rendering>>

\* variant: a configured distance of 0 is taken for an unset one
HookMaterial_Falsy(mat, cfg, far) ==
    LET Unset(d) == ~IsDefined(d) \/ ValueOf(d) = 0
        m1 == IF cfg.forceMaterialToTransparent
                THEN [mat EXCEPT !.transparent = TRUE] ELSE mat
        m2 == setFadeNear(m1, IF Unset(cfg.fadeNear)
                                THEN Some(DEFAULT_FADE_NEAR)
                                ELSE Some(cameraToWorldDistance(ValueOf(cfg.fadeNear), far)))
    IN  setFadeFar(m2, IF Unset(cfg.fadeFar)
                            THEN Some(DEFAULT_FADE_FAR)
                            ELSE Some(cameraToWorldDistance(ValueOf(cfg.fadeFar), far)))

\* the material after the assignments of object.onBeforeRender
HookMaterial(mat, cfg, far) ==
    LET m1 == IF cfg.forceMaterialToTransparent
                THEN [mat EXCEPT !.transparent = TRUE] ELSE mat
        m2 == setFadeNear(m1, IF ~IsDefined(cfg.fadeNear)
                                THEN Some(DEFAULT_FADE_NEAR)
                                ELSE Some(cameraToWorldDistance(ValueOf(cfg.fadeNear), far)))
    IN  setFadeFar(m2, IF ~IsDefined(cfg.fadeFar)
                            THEN Some(DEFAULT_FADE_FAR)
                            ELSE Some(cameraToWorldDistance(ValueOf(cfg.fadeFar), far)))

\* object.onBeforeRender(renderer, scene, camera, geom, material).  Writing
\* `.value` of a uniform the shader does not have throws a TypeError: the hook
\* ends there and the renderer's draw call with it (no onAfterRender)
BeforeRender(m, far) ==
    /\ Idle
    /\ object.helper
    /\ materials[m].constructed
    /\ LET mat == HookMaterial(materials[m], object, far)
           shader == properties[m]
           update == object.updateUniforms /\ IsDefined(shader)
           uniforms == ValueOf(shader).uniforms
           hasNear == "fadeNear" \in DOMAIN uniforms
           hasFar == "fadeFar" \in DOMAIN uniforms
           threw == update /\ ~(hasNear /\ hasFar)
           u1 == IF hasNear THEN SetUniform(uniforms, "fadeNear", getFadeNear(mat))
                 ELSE uniforms
           u2 == IF hasNear /\ hasFar THEN SetUniform(u1, "fadeFar", getFadeFar(mat))
                 ELSE u1
       IN  /\ materials' = [materials EXCEPT
                    ![m] = IF update /\ ~threw
                             THEN [mat EXCEPT !.uniformsNeedUpdate = TRUE] ELSE mat]
           /\ properties' = [properties EXCEPT
                    ![m] = IF update THEN Some([ValueOf(shader) EXCEPT !.uniforms = u2])
                           ELSE shader]
           /\ rendering' = IF threw THEN <<>>
                           ELSE <<[m |-> m, transparent |-> materials[m].transparent]>>
           /\ last' = [NoOp EXCEPT !.op = "onBeforeRender", !.m = m,
                            !.pre = materials[m], !.preShader = shader, !.far = far,
                            !.threw = threw,
                            !.callbacks = IF object.additionalCallback /\ ~threw
                                            THEN 1 ELSE 0]
    /\ UNCHANGED <<ShaderChunk, patchCount, object>>

\* variant: the hook puts back the flag the draw call started with
AfterRender_Restore ==
    /\ rendering # <<>>
    /\ LET m == rendering[1].m
       IN  /\ materials' = [materials EXCEPT
                    ![m].transparent = IF object.onAfterRender
                                        THEN rendering[1].transparent ELSE @]
           /\ last' = [NoOp EXCEPT !.op = "onAfterRender", !.m = m,
                            !.pre = materials[m],
                            !.transparentBefore = rendering[1].transparent]
    /\ rendering' = <<>>
    /\ UNCHANGED <<properties, ShaderChunk, patchCount, object>>

\* object.onAfterRender(renderer, scene, camera, geom, material): the hook
\* addRenderHelper installed, or THREE.Object3D's empty one
AfterRender ==
    /\ ~Idle
    /\ LET m == rendering[1].m
       IN  /\ materials' = [materials EXCEPT
                    ![m].transparent = IF object.onAfterRender THEN FALSE ELSE @]
           /\ last' = [NoOp EXCEPT !.op = "onAfterRender", !.m = m,
                            !.pre = materials[m],
                            !.transparentBefore = rendering[1].transparent]
    /\ rendering' = <<>>
    /\ UNCHANGED <<properties, ShaderChunk, patchCount, object>>

\* One material through its life: construction, property assignments, the
\* update procedure and shader compilations
Next ==
    \/ \E kind \in MaterialKinds, fadeNear \in OptionalDistances,
          fadeFar \in OptionalDistances :
            Construct(1, kind, fadeNear, fadeFar, FALSE)
    \/ \E value \in AssignedValues : SetFadeNear(1, value)
    \/ \E value \in AssignedValues : SetFadeFar(1, value)
    \/ UpdateDistanceFadeFeature(1)
    \/ \E shader \in ShaderLib : Compile(1, shader)

Spec == Init /\ [][Next]_vars

\* One material drawn by an object with the render helper, frame after frame
NextRender ==
    \/ \E fadeNear \in OptionalDistances, fadeFar \in OptionalDistances,
          transparent \in BOOLEAN :
            Construct(1, "basic", fadeNear, fadeFar, transparent)
    \/ \E fadeNear \in OptionalDistances, fadeFar \in OptionalDistances,
          force \in BOOLEAN, updateUniforms \in BOOLEAN, callback \in BOOLEAN :
            AddRenderHelper(fadeNear, fadeFar, force, updateUniforms, callback)
    \/ \E far \in CameraFars : BeforeRender(1, far)
    \/ Compile(1, FogShader)
    \/ AfterRender

SpecRender == Init /\ [][NextRender]_vars

\* Several materials: constructions, assignments and clones
NextMaterials ==
    \/ \E m \in MaterialIds, kind \in MaterialKinds,
          fadeNear \in OptionalDistances, fadeFar \in OptionalDistances :
            Construct(m, kind, fadeNear, fadeFar, FALSE)
    \/ \E m \in MaterialIds, value \in AssignedValues : SetFadeFar(m, value)
    \/ \E source \in MaterialIds, m \in MaterialIds : Clone(source, m)

SpecMaterials == Init /\ [][NextMaterials]_vars

----------------------------------------------------------------------------
(* Properties *)

\* the material the last operation acted on, as it is now
Current == materials[last.m]

HasDefine(mat) == IsDefined(mat.defines) /\ FADING_MATERIAL \in ValueOf(mat.defines)

\* C1: once fadeFar has been assigned, the define FADING_MATERIAL is in the
\* material's defines exactly when the fadeFar assigned last is > 0.
C1_DefineFollowsFadeFar ==
    \A m \in MaterialIds :
        (materials[m].constructed /\ IsDefined(materials[m].m_fadeFar))
            => (HasDefine(materials[m]) <=> ValueOf(materials[m].m_fadeFar) > 0)

\* C2: a call of setFadeNear / setFadeFar stores the value; with a value other
\* than the stored one needsUpdate is true afterwards; with the stored value and
\* needsUpdate false, needsUpdate stays false and the defines are as before; with
\* needsUpdate true it stays true and the update procedure has run (the defines
\* exist and hold the define when fadeFar > 0), whatever the value.
C2_SetterMarksUpdate ==
    last.op \in {"setFadeNear", "setFadeFar"} =>
        LET stored == IF last.op = "setFadeNear" THEN last.pre.m_fadeNear
                      ELSE last.pre.m_fadeFar
            now == IF last.op = "setFadeNear" THEN Current.m_fadeNear
                   ELSE Current.m_fadeFar
        IN  /\ now = last.value
            /\ last.value # stored => Current.needsUpdate
            /\ (last.value = stored /\ ~last.pre.needsUpdate)
                    => (~Current.needsUpdate /\ Current.defines = last.pre.defines)
            /\ last.pre.needsUpdate
                    => /\ Current.needsUpdate
                       /\ IsDefined(Current.defines)
                       /\ FadingEnabled(Current.m_fadeFar) => HasDefine(Current)

\* C2 witness: fadeFar is assigned the value it has while nothing is pending,
\* and the material is left as it was
C2_Witness ==
    /\ last.op = "setFadeFar"
    /\ last.value = last.pre.m_fadeFar
    /\ ~last.pre.needsUpdate
    /\ Current = last.pre

\* C3: the clone of a material whose fadeNear and fadeFar are set reads the same
\* fadeNear and fadeFar, has the define exactly when that fadeFar is > 0, and
\* the source is as it was before the clone.
C3_CloneCopiesFading ==
    (last.op = "clone" /\ IsDefined(getFadeNear(last.pre))
                       /\ IsDefined(getFadeFar(last.pre)))
        => /\ getFadeNear(Current) = getFadeNear(last.pre)
           /\ getFadeFar(Current) = getFadeFar(last.pre)
           /\ IsDefined(Current.defines)
           /\ HasDefine(Current) <=> ValueOf(getFadeFar(last.pre)) > 0
           /\ materials[last.source] = last.pre

\* C3 witness: a material with fadeNear 0 and fadeFar 1 has been cloned
C3_Witness ==
    /\ last.op = "clone"
    /\ getFadeNear(last.pre) = Some(0)
    /\ getFadeFar(last.pre) = Some(1)
    /\ getFadeFar(Current) = Some(1)

\* the distance the before-render hook is to store for a configured one
WorldDistance(configured, far) ==
    IF IsDefined(configured) THEN Some(ValueOf(configured) * far) ELSE Some(-1)

\* C4: after the before-render hook the material's fadeNear is the configured
\* fadeNear times camera.far, or -1 when none was configured, and likewise
\* fadeFar, whatever the material held before.
C4_HookStoresWorldDistances ==
    last.op = "onBeforeRender" =>
        /\ getFadeNear(Current) = WorldDistance(object.fadeNear, last.far)
        /\ getFadeFar(Current) = WorldDistance(object.fadeFar, last.far)

\* C4 witness: the hook ran with fadeNear configured and fadeFar not, on a
\* material that held other values
C4_Witness ==
    /\ last.op = "onBeforeRender"
    /\ IsDefined(object.fadeNear) /\ ~IsDefined(object.fadeFar)
    /\ getFadeNear(Current) = Some(last.far)
    /\ getFadeFar(Current) = Some(-1)
    /\ getFadeNear(last.pre) # getFadeNear(Current)
    /\ getFadeFar(last.pre) # getFadeFar(Current)

C6_CompileDisabledIsNoOp ==
    (last.op = "compile"
        /\ (~IsDefined(last.pre.m_fadeFar) \/ ValueOf(last.pre.m_fadeFar) <= 0))
        => properties[last.m] = last.preShader

\* C6 witness: a shader with the fog includes was compiled for a material whose
\* fadeFar is undefined, and has no fadeFar uniform
C6_Witness ==
    /\ last.op = "compile"
    /\ ~IsDefined(last.pre.m_fadeFar)
    /\ last.preShader = Some(FogShader)
    /\ "fadeFar" \notin DOMAIN ValueOf(properties[last.m]).uniforms

Constructed == {m \in MaterialIds : materials[m].constructed}

\* C7: once a material has been constructed the registry has been written
\* exactly once, however many constructions followed, and holds the fading chunks.
C7_PatchedOnce ==
    /\ Constructed = {} => (patchCount = 0 /\ ShaderChunk = BaseShaderChunk)
    /\ Constructed # {} => (patchCount = 1
                            /\ ShaderChunk = BaseShaderChunk \cup fadingShaderChunk)

\* C7 witness: a basic and a standard material have been constructed
C7_Witness ==
    /\ Cardinality(Constructed) >= 2
    /\ \E a, b \in Constructed :
            materials[a].kind = "basic" /\ materials[b].kind = "standard"
    /\ last.op = "construct"
    /\ patchCount = 1

\* C8: a material constructed without fadeNear and fadeFar reads both as -1.
C8_DefaultsAfterConstruction ==
    (last.op = "construct" /\ ~IsDefined(last.fadeNear) /\ ~IsDefined(last.fadeFar))
        => /\ getFadeNear(Current) = Some(DEFAULT_FADE_NEAR)
           /\ getFadeFar(Current) = Some(DEFAULT_FADE_FAR)

\* C9: after a call of updateDistanceFadeFeature a second call changes neither
\* the defines nor needsUpdate.
C9_UpdateIdempotent ==
    last.op = "update" =>
        /\ updateDistanceFadeFeature(Current).defines = Current.defines
        /\ updateDistanceFadeFeature(Current).needsUpdate = Current.needsUpdate

\* C9 witness: a call that set the define and needsUpdate
C9_Witness ==
    /\ last.op = "update"
    /\ HasDefine(Current)
    /\ Current # last.pre

\* C10 as stated: after the after-render hook of a forcing helper the flag is
\* what it was before the before-render hook.
C10_FlagRestored ==
    (last.op = "onAfterRender" /\ object.forceMaterialToTransparent)
        => Current.transparent = last.transparentBefore

\* C10 amended: after the after-render hook of a forcing helper the flag is
\* false whatever it was before the before-render hook, so it is the earlier
\* value only when that was false.
C10_FlagReset ==
    (last.op = "onAfterRender" /\ object.forceMaterialToTransparent)
        => /\ Current.transparent = FALSE
           /\ (Current.transparent = last.transparentBefore)
                    <=> ~last.transparentBefore

\* C10 witness: a draw call of a material that was transparent before it
C10_Witness ==
    /\ last.op = "onAfterRender"
    /\ object.forceMaterialToTransparent
    /\ last.transparentBefore
    /\ Current.transparent = FALSE

\* the positions of token t in source s
Positions(s, t) == {i \in 1..Len(s) : s[i] = t}

First(S) == CHOOSE i \in S : \A j \in S : i <= j

\* the tokens the patch adds around an anchor, apart from line breaks and tabs
PatchTokens ==
    {PatchStart, PatchEnd} \cup {Include(c) : c \in fadingShaderChunk}

\* the code of a source: its tokens without line breaks, tabs and patch tokens
Code(s) == SelectSeq(s, LAMBDA t : t \notin PatchTokens \cup {NL, TAB})

\* source `after` is source `before` with the include of `inserted` put after
\* the first include of `anchor`, if there is one: the fading include occurs
\* once, right after the first anchor include with only the start marker
\* between them, after a tab exactly when `tab`, and followed by the end marker
PatchedAt(before, after, anchor, inserted, tab) ==
    LET anchors == Positions(after, Include(anchor))
        fading == Positions(after, Include(inserted))
    IN  IF Positions(before, Include(anchor)) = {}
        THEN anchors = {} /\ fading = {}
        ELSE /\ Cardinality(anchors) = Cardinality(Positions(before, Include(anchor)))
             /\ Cardinality(fading) = 1
             /\ LET a == First(anchors)
                    f == First(fading)
                IN  /\ f = a + (IF tab THEN 5 ELSE 4)
                    /\ SubSeq(after, a + 1, a + 3) = <<NL, PatchStart, NL>>
                    /\ (after[f - 1] = TAB) <=> tab
                    /\ SubSeq(after, f + 1, f + 3) = <<NL, PatchEnd, NL>>

\* what the patch adds to the length of a source with the given anchor: a line
\* break before it, and after it the two markers and the fading include, each
\* after a line break, a last line break, and the tab
Added(before, anchor, tab) ==
    IF Positions(before, Include(anchor)) = {} THEN 0
    ELSE IF tab THEN 9 ELSE 8

\* C11: a compilation of a material with fadeFar > 0 sets the shader's fadeNear
\* and fadeFar uniforms to the material's fadeNear and fadeFar and keeps the
\* other uniforms; in each source the fading include follows the first
\* occurrence of its anchor, after a tab for fog_vertex and fog_fragment only;
\* an absent anchor gets no insertion, and the code of the sources is as before.
C11_CompilePatchesShader ==
    (last.op = "compile" /\ IsDefined(last.pre.m_fadeFar)
                         /\ ValueOf(last.pre.m_fadeFar) > 0) =>
        LET before == ValueOf(last.preShader)
            after == ValueOf(properties[last.m])
        IN  /\ DOMAIN after.uniforms = DOMAIN before.uniforms \cup {"fadeNear", "fadeFar"}
            /\ after.uniforms["fadeNear"] = getFadeNear(Current)
            /\ after.uniforms["fadeFar"] = getFadeFar(Current)
            /\ \A n \in DOMAIN before.uniforms : after.uniforms[n] = before.uniforms[n]
            /\ PatchedAt(before.vertexShader, after.vertexShader,
                         "fog_pars_vertex", "fading_pars_vertex", FALSE)
            /\ PatchedAt(before.vertexShader, after.vertexShader,
                         "fog_vertex", "fading_vertex", TRUE)
            /\ PatchedAt(before.fragmentShader, after.fragmentShader,
                         "fog_pars_fragment", "fading_pars_fragment", FALSE)
            /\ PatchedAt(before.fragmentShader, after.fragmentShader,
                         "fog_fragment", "fading_fragment", TRUE)
            /\ Code(after.vertexShader) = Code(before.vertexShader)
            /\ Code(after.fragmentShader) = Code(before.fragmentShader)
            /\ Len(after.vertexShader) = Len(before.vertexShader)
                    + Added(before.vertexShader, "fog_pars_vertex", FALSE)
                    + Added(before.vertexShader, "fog_vertex", TRUE)
            /\ Len(after.fragmentShader) = Len(before.fragmentShader)
                    + Added(before.fragmentShader, "fog_pars_fragment", FALSE)
                    + Added(before.fragmentShader, "fog_fragment", TRUE)

\* C11 witness: a material with fadeNear 0 and fadeFar 1 and a shader whose
\* vertex source has no anchor and whose fragment source has fog_fragment twice:
\* the vertex source is as it was, the fragment source has one fading include
C11_Witness ==
    /\ last.op = "compile"
    /\ last.pre.m_fadeNear = Some(0)
    /\ last.pre.m_fadeFar = Some(1)
    /\ last.preShader = Some(OtherShader)
    /\ ValueOf(properties[last.m]).vertexShader = OtherShader.vertexShader
    /\ Cardinality(Positions(ValueOf(properties[last.m]).fragmentShader,
                             Include("fading_fragment"))) = 1

\* the before-render hook found a compiled shader to update
UpdatesUniforms ==
    last.op = "onBeforeRender" /\ object.updateUniforms /\ IsDefined(last.preShader)

\* the case of C12: the before-render hook of a helper with updateUniforms ran
\* on a material with a compiled shader and needsUpdate false, and the distances
\* it computed differ from the stored ones, with fading enabled before and after
DistancesChanged ==
    /\ UpdatesUniforms
    /\ ~last.pre.needsUpdate
    /\ FadingEnabled(getFadeFar(last.pre))
    /\ FadingEnabled(getFadeFar(Current))
    /\ \/ getFadeNear(Current) # getFadeNear(last.pre)
       \/ getFadeFar(Current) # getFadeFar(last.pre)

\* C12 as stated: in that case the shader's uniforms hold the new values and
\* needsUpdate is still false after the hook.
C12_UpdateWithoutRecompile ==
    DistancesChanged
        => /\ {"fadeNear", "fadeFar"} \subseteq DOMAIN ValueOf(properties[last.m]).uniforms
           /\ ValueOf(properties[last.m]).uniforms["fadeNear"] = getFadeNear(Current)
           /\ ValueOf(properties[last.m]).uniforms["fadeFar"] = getFadeFar(Current)
           /\ ~Current.needsUpdate

\* C12 amended: in that case the shader's uniforms hold the new values and
\* uniformsNeedUpdate is true, and needsUpdate is true after the hook: the
\* assignment of a new distance marks the material for an update.
C12_UpdateMarksMaterial ==
    DistancesChanged
        => /\ {"fadeNear", "fadeFar"} \subseteq DOMAIN ValueOf(properties[last.m]).uniforms
           /\ ValueOf(properties[last.m]).uniforms["fadeNear"] = getFadeNear(Current)
           /\ ValueOf(properties[last.m]).uniforms["fadeFar"] = getFadeFar(Current)
           /\ Current.uniformsNeedUpdate
           /\ ~last.threw
           /\ Current.needsUpdate

\* C12 witness: the camera's far plane moved from 2 to 3 between two frames of a
\* helper with fadeFar 1 and no fadeNear
C12_Witness ==
    /\ DistancesChanged
    /\ getFadeNear(last.pre) = Some(-1) /\ getFadeNear(Current) = Some(-1)
    /\ getFadeFar(last.pre) = Some(2) /\ getFadeFar(Current) = Some(3)
    /\ ValueOf(properties[last.m]).uniforms["fadeFar"] = Some(3)

\* C13: after the before-render hook of a helper with updateUniforms on a
\* material with a compiled shader, the shader's fadeNear and fadeFar uniforms
\* are the material's fadeNear and fadeFar and uniformsNeedUpdate is true;
\* otherwise the shader and uniformsNeedUpdate are as before; and a callback
\* given to the helper has been called once.
C13_HookUpdatesUniforms ==
    last.op = "onBeforeRender" =>
        /\ UpdatesUniforms =>
            /\ {"fadeNear", "fadeFar"} \subseteq DOMAIN ValueOf(properties[last.m]).uniforms
            /\ ValueOf(properties[last.m]).uniforms["fadeNear"] = getFadeNear(Current)
            /\ ValueOf(properties[last.m]).uniforms["fadeFar"] = getFadeFar(Current)
            /\ Current.uniformsNeedUpdate
        /\ ~UpdatesUniforms =>
            /\ properties[last.m] = last.preShader
            /\ Current.uniformsNeedUpdate = last.pre.uniformsNeedUpdate
        /\ object.additionalCallback => last.callbacks = 1

\* C14: whenever the before-render hook of a helper with updateUniforms finds a
\* compiled shader, the shader has a fadeNear and a fadeFar uniform, and the
\* hook's writes throw nothing.
C14_UniformSlotsExist ==
    UpdatesUniforms =>
        /\ {"fadeNear", "fadeFar"} \subseteq DOMAIN ValueOf(last.preShader).uniforms
        /\ ~last.threw

====
